---- MODULE Spec2Model ----
(***************************************************************************)
(* A model of the file downloader: Downloader<T: FileDownloader> with its  *)
(* two fetchers (MockFetcher, UReqFetcher), the cache directory it writes  *)
(* to, and the pure helpers that name the cached file.                     *)
(*                                                                         *)
(* Strings are sequences: a URL is a sequence of lexical tokens (scheme,   *)
(* "://", host, path), a MIME type, an extension and a file name are       *)
(* sequences of one-character strings, a body is a sequence of bytes.      *)
(* Option<T> is a record [some, val].                                      *)
(***************************************************************************)
EXTENDS Integers, Sequences, FiniteSets, TLC

\* ------------------------------------------------------------------ bounds
MaxQueue == 2
MaxCalls == 3
MaxMimeLen == 3
MaxBodyLen == 3
MaxFetches == 2

\* ------------------------------------------------------- Option<String>
None == [some |-> FALSE, val |-> <<>>]
Some(v) == [some |-> TRUE, val |-> v]

\* All sequences over S of length at most n.
RECURSIVE SeqsUpTo(_, _)
SeqsUpTo(S, n) ==
    IF n = 0 THEN {<<>>}
    ELSE LET shorter == SeqsUpTo(S, n - 1)
         IN  shorter \cup {Append(s, x) : s \in shorter, x \in S}

\* ---------------------------------------------------------- Url::parse
SchemeTokens == {"http", "HTTP", "https"}
HostTokens == {"a.com", "A.COM", "b.com"}

\* Scheme and host are ASCII-lowercased by the parser.
Lower(t) ==
    CASE t = "HTTP" -> "http"
      [] t = "A.COM" -> "a.com"
      [] OTHER -> t

NoUrl == None

\* Url::parse(url): a string with no leading "scheme:" is a relative URL
\* without a base, and a special scheme with no host is an empty-host error;
\* both are Err.  Otherwise the serialization (as_str) has the scheme and
\* host lowercased and an empty path replaced by "/".
UrlParse(s) ==
    IF Len(s) < 2 \/ s[1] \notin SchemeTokens \/ s[2] # "://" THEN NoUrl
    ELSE IF Len(s) < 3 \/ s[3] \notin HostTokens THEN NoUrl
    ELSE Some(<<Lower(s[1]), "://", Lower(s[3])>>
              \o (IF Len(s) = 3 THEN <<"/">> ELSE SubSeq(s, 4, Len(s))))

\* The strings handed to download.
Urls ==
    { <<"http", "://", "a.com", "/x">>,
      <<"HTTP", "://", "A.COM", "/x">>,
      <<"http", "://", "b.com">>,
      <<"http", "://", "b.com", "/">>,
      <<"x.png">>,
      <<"http", "://">> }

\* ------------------------------------------------------------ get_hash
TokenCode(t) ==
    CASE t = "http" -> 3 [] t = "HTTP" -> 5 [] t = "https" -> 7
      [] t = "://" -> 11 [] t = "a.com" -> 13 [] t = "A.COM" -> 17
      [] t = "b.com" -> 19 [] t = "/" -> 23 [] t = "/x" -> 29
      [] OTHER -> 31

\* The hasher state after feeding the string: a keyless fold over the
\* string, standing for SipHash with DefaultHasher::new()'s fixed keys.
RECURSIVE HashFold(_, _)
HashFold(h, s) ==
    IF s = <<>> THEN h
    ELSE HashFold((h * 31 + TokenCode(Head(s))) % 65521, Tail(s))

Digit(d) ==
    CASE d = 0 -> "0" [] d = 1 -> "1" [] d = 2 -> "2" [] d = 3 -> "3"
      [] d = 4 -> "4" [] d = 5 -> "5" [] d = 6 -> "6" [] d = 7 -> "7"
      [] d = 8 -> "8" [] d = 9 -> "9"

\* u64::to_string: the decimal digits, most significant first.
RECURSIVE ToDecimal(_)
ToDecimal(n) ==
    IF n < 10 THEN <<Digit(n)>>
    ELSE Append(ToDecimal(n \div 10), Digit(n % 10))

get_hash(url) == ToDecimal(HashFold(7, url))

\* ------------------------------------------------------- get_extension
\* str::split('/'): the pieces between the separators; n separators give
\* n + 1 pieces, empty ones included.
RECURSIVE SplitFrom(_, _, _)
SplitFrom(s, i, cur) ==
    IF i > Len(s) THEN <<cur>>
    ELSE IF s[i] = "/" THEN <<cur>> \o SplitFrom(s, i + 1, <<>>)
    ELSE SplitFrom(s, i + 1, Append(cur, s[i]))

Split(s) == SplitFrom(s, 1, <<>>)

get_extension_from_mimetype(mime) ==
    IF ~mime.some THEN None
    ELSE LET mime_parts == Split(mime.val)
         IN  IF Len(mime_parts) # 2 THEN None
             ELSE IF mime_parts[2] = <<>> THEN None
             ELSE Some(mime_parts[2])

\* The image reader's signature table, in its order: the leading bytes of a
\* format and the first of the format's extensions.
MagicBytes ==
    << [sig |-> <<137, 80, 78, 71, 13, 10, 26, 10>>, ext |-> <<"p", "n", "g">>],
       [sig |-> <<255, 216, 255>>,                   ext |-> <<"j", "p", "g">>],
       [sig |-> <<71, 73, 70, 56, 57, 97>>,          ext |-> <<"g", "i", "f">>],
       [sig |-> <<71, 73, 70, 56, 55, 97>>,          ext |-> <<"g", "i", "f">>],
       [sig |-> <<66, 77>>,                          ext |-> <<"b", "m", "p">>] >>

StartsWith(body, sig) ==
    Len(body) >= Len(sig) /\ SubSeq(body, 1, Len(sig)) = sig

\* with_guessed_format().format(), then extensions_str()[0]: the first
\* signature of the table the body starts with.
RECURSIVE GuessFrom(_, _)
GuessFrom(body, i) ==
    IF i > Len(MagicBytes) THEN None
    ELSE IF StartsWith(body, MagicBytes[i].sig) THEN Some(MagicBytes[i].ext)
    ELSE GuessFrom(body, i + 1)

get_extension_from_content(body) == GuessFrom(body, 1)

Dat == <<"d", "a", "t">>

\* An extension that prefers the sniffed content to the MIME type.
get_extension_content_first(mime, body) ==
    LET from_content == get_extension_from_content(body)
    IN  IF from_content.some THEN from_content.val
        ELSE LET from_mime == get_extension_from_mimetype(mime)
             IN  IF from_mime.some THEN from_mime.val ELSE Dat

get_extension(mime, body) ==
    LET from_mime == get_extension_from_mimetype(mime)
    IN  IF from_mime.some THEN from_mime.val
        ELSE LET from_content == get_extension_from_content(body)
             IN  IF from_content.some THEN from_content.val ELSE Dat

\* ------------------------------------------------------------ Response
RespOk(body, mime) == [kind |-> "Ok", body |-> body, mime |-> mime]
RespErr(kind) == [kind |-> kind, body |-> <<>>, mime |-> None]
NoResponse == RespErr("None")

ImagePng == <<"i", "m", "a", "g", "e", "/", "p", "n", "g">>
MockedContent == <<77, 111>>
BmpContent == <<66, 77, 1>>

\* The responses a test programs into the mock fetcher.
Responses ==
    { RespOk(MockedContent, Some(ImagePng)),
      RespOk(BmpContent, Some(ImagePng)),
      RespOk(BmpContent, None),
      RespErr("NotFound"),
      RespErr("NetworkError"),
      RespErr("InvalidBody") }

\* --------------------------------------------------------- MockFetcher
\* A fetcher that hands its responses out from the wrong end.
MockFetchLast(responses, url) ==
    IF responses = <<>>
    THEN [response |-> RespErr("NetworkError"), responses |-> responses]
    ELSE [response |-> responses[Len(responses)],
          responses |-> SubSeq(responses, 1, Len(responses) - 1)]

\* MockFetcher::fetch(_url): responses.remove(0), or NetworkError when the
\* vector is empty.  The result and the vector left behind.
MockFetch(responses, url) ==
    IF responses = <<>>
    THEN [response |-> RespErr("NetworkError"), responses |-> responses]
    ELSE [response |-> Head(responses), responses |-> Tail(responses)]

\* ---------------------------------------------------------- Downloader
BaseDir == <<"images">>

Result(kind, source, file) == [kind |-> kind, source |-> source, file |-> file]
Err(kind) == Result(kind, <<>>, <<>>)
Panic == Err("Panic")
NoResult == Err("None")

EmptyDir == [p \in {} |-> <<>>]

\* A fetch retried once after NetworkError.
FetchStageRetry(url, responses) ==
    LET got == MockFetch(responses, url)
        again == MockFetch(got.responses, url)
    IN  IF got.response.kind = "NetworkError"
        THEN [called |-> <<url, url>>, response |-> again.response,
              responses |-> again.responses]
        ELSE [called |-> <<url>>, response |-> got.response,
              responses |-> got.responses]

\* Line 86: self.fetcher.fetch(url), once, with url.as_str().
FetchStage(url, responses) ==
    LET got == MockFetch(responses, url)
    IN  [called |-> <<url>>, response |-> got.response,
         responses |-> got.responses]

\* A match whose NotFound arm reports NetworkError.
ErrorOfSwapped(response) ==
    IF response.kind = "NotFound" THEN "NetworkError" ELSE response.kind

\* Lines 89-91: the DownloadError of an error response.
ErrorOf(response) ==
    CASE response.kind = "NetworkError" -> "NetworkError"
      [] response.kind = "NotFound" -> "NotFound"
      [] response.kind = "InvalidBody" -> "InvalidBody"

\* Lines 94-100: self.path.join(format!("{}.{}", hash, extension)).
file_path(url, mime, body) ==
    BaseDir \o <<"/">> \o get_hash(url) \o <<".">> \o get_extension(mime, body)

\* A file opened for appending instead of truncated.
fs_write_append(dirExists, files, path, body) ==
    IF ~dirExists THEN [ok |-> FALSE, files |-> files]
    ELSE IF path \in DOMAIN files
    THEN [ok |-> TRUE, files |-> (path :> (files[path] \o body)) @@ files]
    ELSE [ok |-> TRUE, files |-> (path :> body) @@ files]

\* std::fs::write(path, body): creates or truncates the file and writes the
\* whole body; Err when the parent directory does not exist.
fs_write(dirExists, files, path, body) ==
    IF ~dirExists THEN [ok |-> FALSE, files |-> files]
    ELSE [ok |-> TRUE, files |-> (path :> body) @@ files]

\* A success that reports the URL's hash as the source.
SaveStageSource(url, response, dirExists, files) ==
    IF response.kind # "Ok"
    THEN [result |-> Err(ErrorOf(response)), files |-> files]
    ELSE LET path == file_path(url, response.mime, response.body)
             wrote == fs_write(dirExists, files, path, response.body)
         IN  IF ~wrote.ok THEN [result |-> Panic, files |-> files]
             ELSE [result |-> Result("Ok", get_hash(url), path),
                   files |-> wrote.files]

\* Lines 88-106: the match on the response.
SaveStage(url, response, dirExists, files) ==
    IF response.kind # "Ok"
    THEN [result |-> Err(ErrorOf(response)), files |-> files]
    ELSE LET path == file_path(url, response.mime, response.body)
             wrote == fs_write(dirExists, files, path, response.body)
         IN  IF ~wrote.ok THEN [result |-> Panic, files |-> files]
             ELSE [result |-> Result("Ok", url, path), files |-> wrote.files]

\* A download that calls the fetcher before it validates the URL.
download_fetch_first(url, responses, dirExists, files) ==
    LET parsed == UrlParse(url)
        fetched == FetchStage(IF parsed.some THEN parsed.val ELSE url,
                              responses)
    IN  IF ~parsed.some
        THEN [result |-> Err("InvalidUrl"), response |-> fetched.response,
              responses |-> fetched.responses, files |-> files,
              called |-> fetched.called]
        ELSE LET saved == SaveStage(parsed.val, fetched.response,
                                    dirExists, files)
             IN  [result |-> saved.result, response |-> fetched.response,
                  responses |-> fetched.responses, files |-> saved.files,
                  called |-> fetched.called]

\* Downloader::download(url): the result, the fetcher's vector and the
\* directory's files after the call, and the URLs fetch was called with.
download(url, responses, dirExists, files) ==
    LET parsed == UrlParse(url)
    IN  IF ~parsed.some
        THEN [result |-> Err("InvalidUrl"), response |-> NoResponse,
              responses |-> responses, files |-> files, called |-> <<>>]
        ELSE LET fetched == FetchStage(parsed.val, responses)
                 saved == SaveStage(parsed.val, fetched.response,
                                    dirExists, files)
             IN  [result |-> saved.result, response |-> fetched.response,
                  responses |-> fetched.responses, files |-> saved.files,
                  called |-> fetched.called]

\* Downloader::clear_cache(): remove_dir_all(self.path) removes the
\* directory with everything in it, and is an Err (a panic) when the
\* directory is not there.
clear_cache(dirExists, files) ==
    IF ~dirExists
    THEN [panic |-> TRUE, dirExists |-> dirExists, files |-> files]
    ELSE [panic |-> FALSE, dirExists |-> FALSE, files |-> EmptyDir]

\* --------------------------------------------------------- UReqFetcher
\* What the network does with the one GET: whether a response arrives at
\* all, its status, its Content-Type header, its body and whether the body
\* can be read to the end.
Statuses == {200, 201, 204, 206, 400, 404, 500}

NoReply ==
    [transport |-> FALSE, status |-> 0, header |-> None, body |-> <<>>,
     readOk |-> FALSE]

Nets ==
    {NoReply} \cup
    [transport : {TRUE}, status : Statuses, header : {None, Some(ImagePng)},
     body : {<<>>, MockedContent}, readOk : BOOLEAN]

\* request.call(): Err(Transport) when no response arrives, Err(Status)
\* for a response with a status of 400 or more, Ok(response) otherwise.
ureq_call(net) ==
    IF ~net.transport THEN "Transport"
    ELSE IF net.status >= 400 THEN "Status"
    ELSE "Ok"

\* A fetch without the Status(404, _) arm.
UReqFetchNo404(net) ==
    IF ureq_call(net) = "Ok"
    THEN IF net.readOk THEN RespOk(net.body, net.header)
         ELSE RespErr("InvalidBody")
    ELSE RespErr("NetworkError")

\* UReqFetcher::fetch(url): the match on the result of call().
UReqFetch(net) ==
    IF ureq_call(net) = "Ok"
    THEN IF net.readOk THEN RespOk(net.body, net.header)
         ELSE RespErr("InvalidBody")
    ELSE IF ureq_call(net) = "Status" /\ net.status = 404
    THEN RespErr("NotFound")
    ELSE RespErr("NetworkError")

\* ---------------------------------------------------------------- state
VARIABLES
    pc,          \* "running", or "panicked" once a call has panicked
    dirExists,   \* whether the base directory exists
    files,       \* the files of the base directory: path -> content
    responses,   \* MockFetcher.responses
    initial,     \* the vector the mock fetcher was built from
    returned,    \* what fetch has returned, call by call
    fetchLog,    \* the URLs fetch was called with, call by call
    callLog,     \* the canonical URL of every download call that parsed
    last,        \* the last call made on the downloader
    prev,        \* the call before it
    ncalls,      \* how many calls have been made
    ext,         \* a call of get_extension: its arguments and its result
    ureq         \* the real fetcher: its fetches, the last outcome and result

vars == <<pc, dirExists, files, responses, initial, returned, fetchLog,
          callLog, last, prev, ncalls, ext, ureq>>

downloaderVars == <<pc, dirExists, files, responses, initial, returned,
                    fetchLog, callLog, last, prev, ncalls>>

Call(op, url, out, resp, filesBefore, responsesBefore, dirBefore, fetchesBefore) ==
    [op |-> op, url |-> url, result |-> out, response |-> resp,
     filesBefore |-> filesBefore, responsesBefore |-> responsesBefore,
     dirBefore |-> dirBefore, fetchesBefore |-> fetchesBefore]

NoCall == Call("none", <<>>, NoResult, NoResponse, EmptyDir, <<>>, TRUE, 0)

\* Downloader::with_fetcher(path, MockFetcher::new(responses)): the base
\* directory exists once create_path_from_string has returned.
NoExt == [pc |-> "idle", mime |-> None, body |-> <<>>, out |-> <<>>]
NoUreq == [n |-> 0, net |-> NoReply, response |-> NoResponse]

InitDownloader(queues) ==
    /\ pc = "running"
    /\ dirExists = TRUE
    /\ files = EmptyDir
    /\ responses \in queues
    /\ initial = responses
    /\ returned = <<>>
    /\ fetchLog = <<>>
    /\ callLog = <<>>
    /\ last = NoCall
    /\ prev = NoCall
    /\ ncalls = 0

Init ==
    /\ InitDownloader(SeqsUpTo(Responses, MaxQueue))
    /\ ext = NoExt
    /\ ureq = NoUreq

Download(url) ==
    /\ pc = "running"
    /\ ncalls < MaxCalls
    /\ ncalls' = ncalls + 1
    /\ LET out == download(url, responses, dirExists, files)
           parsed == UrlParse(url)
       IN  /\ pc' = IF out.result.kind = "Panic" THEN "panicked" ELSE "running"
           /\ files' = out.files
           /\ responses' = out.responses
           /\ returned' = IF out.called = <<>> THEN returned
                          ELSE Append(returned, out.response)
           /\ fetchLog' = fetchLog \o out.called
           /\ callLog' = IF parsed.some THEN Append(callLog, parsed.val)
                         ELSE callLog
           /\ last' = Call("download", url, out.result, out.response,
                           files, responses, dirExists, Len(fetchLog))
           /\ prev' = last
    /\ UNCHANGED <<dirExists, initial, ext, ureq>>

ClearCache ==
    /\ pc = "running"
    /\ ncalls < MaxCalls
    /\ ncalls' = ncalls + 1
    /\ LET out == clear_cache(dirExists, files)
       IN  /\ pc' = IF out.panic THEN "panicked" ELSE "running"
           /\ dirExists' = out.dirExists
           /\ files' = out.files
           /\ last' = Call("clear_cache", <<>>,
                           IF out.panic THEN Panic ELSE NoResult,
                           NoResponse, files, responses, dirExists, Len(fetchLog))
           /\ prev' = last
    /\ UNCHANGED <<responses, initial, returned, fetchLog, callLog, ext, ureq>>

Next ==
    \/ \E url \in Urls : Download(url)
    \/ ClearCache

Spec == Init /\ [][Next]_vars

\* ------------------------------------------- get_extension on its own
MimeChars == {"p", "g", "/"}
BodyBytes == {255, 216, 66, 77}
PngContent == <<137, 80, 78, 71, 13, 10, 26, 10, 0>>

MimeInputs ==
    {None, Some(ImagePng)}
    \cup {Some(m) : m \in SeqsUpTo(MimeChars, MaxMimeLen)}

BodyInputs == SeqsUpTo(BodyBytes, MaxBodyLen) \cup {PngContent}

InitExt ==
    /\ InitDownloader({<<>>})
    /\ ext \in [pc : {"call"}, mime : MimeInputs, body : BodyInputs,
                 out : {<<>>}]
    /\ ureq = NoUreq

GetExtension ==
    /\ ext.pc = "call"
    /\ ext' = [ext EXCEPT !.pc = "done",
                          !.out = get_extension(ext.mime, ext.body)]
    /\ UNCHANGED <<downloaderVars, ureq>>

NextExt == GetExtension

SpecExt == InitExt /\ [][NextExt]_vars

\* ------------------------------------------- the real fetcher on its own
InitUreq ==
    /\ InitDownloader({<<>>})
    /\ ext = NoExt
    /\ ureq = NoUreq

Fetch(net) ==
    /\ ureq.n < MaxFetches
    /\ ureq' = [n |-> ureq.n + 1, net |-> net, response |-> UReqFetch(net)]
    /\ UNCHANGED <<downloaderVars, ext>>

NextUreq == \E net \in Nets : Fetch(net)

SpecUreq == InitUreq /\ [][NextUreq]_vars

\* ------------------------------------------------------------- claims
LastDownload == last.op = "download"
LastParsed == UrlParse(last.url)
ErrorKinds == {"NetworkError", "NotFound", "InvalidBody"}

\* C1: a download of a string that does not parse as an absolute URL
\* returns Err(InvalidUrl), calls fetch not at all, leaves the mock's
\* response queue as it was and writes no file.
C1_InvalidUrlNoFetch ==
    (LastDownload /\ ~LastParsed.some) =>
        /\ last.result = Err("InvalidUrl")
        /\ responses = last.responsesBefore
        /\ files = last.filesBefore
        /\ Len(fetchLog) = last.fetchesBefore
        /\ pc = "running"

C1_Witness ==
    /\ LastDownload /\ ~LastParsed.some
    /\ responses # <<>>
    /\ files # EmptyDir

\* C2: a download of a parsable URL for which the fetcher returns
\* NetworkError, NotFound or InvalidBody returns the DownloadError of the
\* same name and leaves the base directory's contents as they were.
C2_ErrorMapped ==
    (LastDownload /\ LastParsed.some /\ last.response.kind \in ErrorKinds) =>
        /\ last.result = Err(last.response.kind)
        /\ files = last.filesBefore
        /\ dirExists = last.dirBefore
        /\ pc = "running"

C2_Witness ==
    /\ LastDownload /\ LastParsed.some
    /\ last.response.kind = "NotFound"
    /\ initial # <<>>
    /\ files # EmptyDir

\* C3: a download of a parsable URL for which the fetcher returns
\* Ok{body, mime}, made while the base directory exists, returns Ok with
\* source the canonical URL and file <base>/<hash(canonical)>.<extension>,
\* and right after the call that file holds exactly body.
C3_OkWritten ==
    (/\ LastDownload /\ LastParsed.some
     /\ last.response.kind = "Ok" /\ last.dirBefore) =>
        /\ last.result.kind = "Ok"
        /\ last.result.source = LastParsed.val
        /\ last.result.file =
               BaseDir \o <<"/">> \o get_hash(LastParsed.val) \o <<".">>
               \o get_extension(last.response.mime, last.response.body)
        /\ last.result.file \in DOMAIN files
        /\ files[last.result.file] = last.response.body

C3_Witness ==
    /\ LastDownload /\ LastParsed.some
    /\ last.response.kind = "Ok" /\ last.dirBefore
    /\ last.url # LastParsed.val
    /\ last.result.kind = "Ok"

BothOk ==
    /\ prev.op = "download" /\ prev.result.kind = "Ok"
    /\ LastDownload /\ last.result.kind = "Ok"

\* C5: two successful downloads whose URLs canonicalize to the same string
\* return the same file path, whatever the Ok responses were.
C5_SameUrlSameFile ==
    (BothOk /\ UrlParse(prev.url) = LastParsed) =>
        last.result.file = prev.result.file

\* C6: a download of a parsable URL with an Ok response, made right after
\* clear_cache on the same downloader, returns Ok and writes the file.
C6_DownloadAfterClear ==
    (/\ prev.op = "clear_cache" /\ prev.result.kind # "Panic"
     /\ LastDownload /\ LastParsed.some /\ last.response.kind = "Ok") =>
        /\ last.result.kind = "Ok"
        /\ last.result.file \in DOMAIN files

\* C7: two downloads in a row with the same URL and the same Ok response
\* give the same file name and the same file content, and the second
\* leaves the cache directory exactly as the first left it.
C7_Deterministic ==
    (BothOk /\ prev.url = last.url /\ prev.response = last.response) =>
        /\ last.result = prev.result
        /\ files = last.filesBefore
        /\ files[last.result.file] = last.response.body

C7_Witness ==
    /\ BothOk /\ prev.url = last.url /\ prev.response = last.response
    /\ Cardinality(DOMAIN files) = 1

\* C8: the k-th fetch of a mock built from n responses returns the k-th
\* response of the list for k <= n, whatever the URL, and NetworkError for
\* k > n; what is left in the queue is the rest of the list.
C8_MockFifo ==
    /\ \A k \in 1..Len(returned) :
           returned[k] = IF k <= Len(initial) THEN initial[k]
                         ELSE RespErr("NetworkError")
    /\ responses = SubSeq(initial, Len(returned) + 1, Len(initial))

C8_Witness ==
    /\ Len(initial) >= 2 /\ initial[1] # initial[2]
    /\ initial[Len(initial)].kind # "NetworkError"
    /\ Len(returned) > Len(initial)
    /\ fetchLog[1] # fetchLog[2]

\* C10: every download whose URL parses calls fetch exactly once, with the
\* canonical URL, whatever the response and whatever the cache holds; a
\* successful download over an existing file leaves the new body in it.
C10_OneFetchPerCall ==
    /\ fetchLog = callLog
    /\ (LastDownload /\ last.result.kind = "Ok") =>
           files[last.result.file] = last.response.body

C10_Witness ==
    /\ LastDownload /\ last.result.kind = "Ok"
    /\ last.result.file \in DOMAIN last.filesBefore
    /\ last.filesBefore[last.result.file] # last.response.body
    /\ Len(fetchLog) = 2 /\ fetchLog[1] = fetchLog[2]

SlashCount(s) == Cardinality({i \in 1..Len(s) : s[i] = "/"})

WellFormedMime(m) ==
    m.some /\ SlashCount(m.val) = 1 /\ m.val[Len(m.val)] # "/"

Subtype(m) ==
    LET slash == CHOOSE i \in 1..Len(m.val) : m.val[i] = "/"
    IN  SubSeq(m.val, slash + 1, Len(m.val))

Signatures(body) == {i \in 1..Len(MagicBytes) : StartsWith(body, MagicBytes[i].sig)}

SniffedExt(body) ==
    MagicBytes[CHOOSE i \in Signatures(body) :
                   \A j \in Signatures(body) : i <= j].ext

\* C4: the extension is the MIME subtype when the MIME type is present, has
\* exactly two '/'-separated parts and a non-empty subtype, whatever the
\* body; otherwise the extension of the body's image signature when it has
\* one; otherwise "dat".
C4_ExtensionPriority ==
    (ext.pc = "done") =>
        ext.out = IF WellFormedMime(ext.mime) THEN Subtype(ext.mime)
                  ELSE IF Signatures(ext.body) # {} THEN SniffedExt(ext.body)
                  ELSE Dat

C4_Witness ==
    /\ ext.pc = "done"
    /\ WellFormedMime(ext.mime)
    /\ Signatures(ext.body) # {}
    /\ ext.out = Subtype(ext.mime)
    /\ ext.out # SniffedExt(ext.body)

\* C9 as stated: of all statuses only 200 gives Ok{body, mime} (or
\* InvalidBody when the body cannot be read), 404 gives NotFound, and every
\* other status and every transport failure gives NetworkError.
C9_Only200IsOk ==
    (ureq.n > 0) =>
        ureq.response =
            IF ureq.net.transport /\ ureq.net.status = 200
            THEN IF ureq.net.readOk
                 THEN RespOk(ureq.net.body, ureq.net.header)
                 ELSE RespErr("InvalidBody")
            ELSE IF ureq.net.transport /\ ureq.net.status = 404
            THEN RespErr("NotFound")
            ELSE RespErr("NetworkError")

\* C9 amended: every status below 400 that reaches fetch as a response, 200
\* among them, gives Ok{body, mime} with mime the Content-Type header
\* verbatim or None, or InvalidBody when the body cannot be read to the
\* end; 404 gives NotFound; every other status of 400 or more and every
\* transport failure gives NetworkError.  Each outcome is one Response.
C9_SuccessStatusIsOk ==
    (ureq.n > 0) =>
        /\ ureq.response.kind \in {"Ok", "InvalidBody", "NotFound", "NetworkError"}
        /\ (ureq.net.transport /\ ureq.net.status < 400 /\ ureq.net.readOk)
              => ureq.response = RespOk(ureq.net.body, ureq.net.header)
        /\ (ureq.net.transport /\ ureq.net.status < 400 /\ ~ureq.net.readOk)
              => ureq.response = RespErr("InvalidBody")
        /\ (ureq.net.transport /\ ureq.net.status = 404)
              => ureq.response = RespErr("NotFound")
        /\ (~ureq.net.transport
              \/ (ureq.net.status >= 400 /\ ureq.net.status # 404))
              => ureq.response = RespErr("NetworkError")

C9_Witness ==
    /\ ureq.n > 0
    /\ ureq.net.transport /\ ureq.net.status = 204 /\ ureq.net.readOk
    /\ ureq.net.header = Some(ImagePng)
    /\ ureq.response.kind = "Ok"

====
